---- MODULE Spec2Model ----
(***************************************************************************)
(* Model of libwaypoint_follower.cpp: lane direction detection, waypoint   *)
(* heading estimation, the cold-start index search (getClosestIndex) and   *)
(* the warm index update (updateCurrentIndex).                             *)
(*                                                                         *)
(* Number representation (exact, no floating point):                       *)
(*   - positions are integers (metres); planar distances are compared      *)
(*     through their squares, which orders them as sqrt does;              *)
(*   - angles are integers in units of pi/8, so M_PI is 8.  Segments are   *)
(*     axis-parallel or diagonal, which makes every atan2 a multiple of    *)
(*     pi/4 and every half angle difference a multiple of pi/8;            *)
(*   - speeds are integers in mm/s; the 0.01 m/s threshold is 10;          *)
(*   - stored waypoint orientations are multiples of pi/2, so the cosine   *)
(*     and sine of the yaw are -1, 0 or 1.                                 *)
(*                                                                         *)
(* Rounding of doubles is not modelled: comparisons are those of the exact *)
(* values.  Indices are those of the C++ code and start at 0.              *)
(*                                                                         *)
(* Specifications: Spec (one call of updateCurrentIndex), SpecCold (one    *)
(* call of getClosestIndex), SpecLane (one call of getLaneDirection),      *)
(* SpecAngle (one call of normalizeAngle), SpecYaw (one call of            *)
(* getWaypointYaw), SpecStationary and SpecAdvance (a caller that hands    *)
(* each returned index to the next call).                                  *)
(***************************************************************************)
EXTENDS Integers, Sequences, FiniteSets, TLC

VARIABLES
  mode,                \* which entry point the run exercises
  current_path,        \* autoware_msgs::Lane: sequence of waypoints
  current_pose,        \* geometry_msgs::Pose: [x, y, yaw]
  current_index,       \* the index handed to updateCurrentIndex
  pc,                  \* position inside updateCurrentIndex / getClosestIndex
  i,                   \* loop variable of the running loop
  start_index,         \* updateCurrentIndex: start of the forward scan
  start_index_offset,  \* updateCurrentIndex: offset of the offset search
  ret,                 \* the value returned by the call ("none" while running)
  calls,               \* number of updateCurrentIndex calls made by the caller
  progress,            \* the waypoint the advancing vehicle has reached
  angle_in,            \* normalizeAngle: the argument
  res,                 \* normalizeAngle: the running / returned value
  behind_yaw,          \* getWaypointYaw: behind_to_current_yaw
  front_yaw            \* getWaypointYaw: current_to_front_yaw

vars == <<mode, current_path, current_pose, current_index, pc, i, start_index,
          start_index_offset, ret, calls, progress, angle_in, res,
          behind_yaw, front_yaw>>

----------------------------------------------------------------------------
(* Numeric constants of the program, in the units above.                   *)

M_PI == 8
\* valid_distance = 5.0 (metres)
valid_distance == 5
\* valid_angle = M_PI / 2
valid_angle == M_PI \div 2
\* std::numeric_limits<double>::max(): above every squared distance of the model
DBL_MAX == 1000000
\* 0.01 m/s in mm/s
VelThreshold == 10
\* 1e-3 m in mm
PosThreshold == 1

Forward == "Forward"
Backward == "Backward"
Error == "Error"

----------------------------------------------------------------------------
(* Geometry primitives.                                                     *)

Abs(a) == IF a < 0 THEN -a ELSE a
Min(a, b) == IF a < b THEN a ELSE b
Max(a, b) == IF a > b THEN a ELSE b

\* waypoints.size()
Size(path) == Len(path)
\* waypoints[k], waypoints.at(k): C++ indices start at 0
WP(path, k) == path[k + 1]

\* getPlaneDistance, squared: sqrt is strictly increasing on the integers used
PlaneDistance2(p, q) == (p.x - q.x) * (p.x - q.x) + (p.y - q.y) * (p.y - q.y)

\* atan2(dy, dx) for an axis-parallel or diagonal vector, in units of pi/8.
\* dy is a difference of two doubles, so a zero dy is +0.0 and atan2(0, dx<0)
\* is +pi; atan2(0, 0) is 0.
Atan2(dy, dx) ==
  CASE dy = 0 /\ dx >= 0 -> 0
    [] dy = 0 /\ dx < 0  -> M_PI
    [] dy > 0 /\ dx > 0  -> 2
    [] dy > 0 /\ dx = 0  -> 4
    [] dy > 0 /\ dx < 0  -> 6
    [] dy < 0 /\ dx > 0  -> -2
    [] dy < 0 /\ dx = 0  -> -4
    [] dy < 0 /\ dx < 0  -> -6

\* cos and sin of a yaw that is a multiple of pi/2
Cos(yaw) == CASE yaw = 0 -> 1 [] Abs(yaw) = M_PI -> -1 [] OTHER -> 0
Sin(yaw) == CASE yaw = 4 -> 1 [] yaw = -4 -> -1 [] OTHER -> 0

\* calcRelativeCoordinate(point, pose).x in mm: the x coordinate of the point
\* in the frame of the pose (inverse transform of the pose applied to it)
RelativeX(point, pose) ==
  1000 * (Cos(pose.yaw) * (point.x - pose.x) + Sin(pose.yaw) * (point.y - pose.y))

\* normalizeAngle: the two while loops, one iteration per unfolding
RECURSIVE NormalizeDown(_)
NormalizeDown(r) == IF r > M_PI THEN NormalizeDown(r - 2 * M_PI) ELSE r
RECURSIVE NormalizeUp(_)
NormalizeUp(r) == IF r < -M_PI THEN NormalizeUp(r + 2 * M_PI) ELSE r
normalizeAngle(euler) == NormalizeUp(NormalizeDown(euler))

----------------------------------------------------------------------------
(* getWaypointYaw                                                           *)

SegmentYaw(path, from, to) ==
  Atan2(WP(path, to).y - WP(path, from).y, WP(path, to).x - WP(path, from).x)

\* FlipIfNegative that reads the velocity of the waypoint before k
FlipIfNegative_Source(path, k, yaw) ==
  IF WP(path, k - 1).vel < 0 THEN normalizeAngle(yaw + M_PI) ELSE yaw

\* a segment yaw, reversed when the velocity of waypoint k is negative
FlipIfNegative(path, k, yaw) ==
  IF WP(path, k).vel < 0 THEN normalizeAngle(yaw + M_PI) ELSE yaw

getWaypointYaw(path, idx) ==
  IF idx > 0 /\ idx < Size(path) - 1
  THEN LET behind_to_current_yaw ==
             FlipIfNegative(path, idx, SegmentYaw(path, idx - 1, idx))
           current_to_front_yaw ==
             FlipIfNegative(path, idx + 1, SegmentYaw(path, idx, idx + 1))
           angle_diff == normalizeAngle(current_to_front_yaw - behind_to_current_yaw)
       IN  IF Abs(angle_diff) < M_PI
           THEN normalizeAngle(behind_to_current_yaw + angle_diff \div 2)
           ELSE current_to_front_yaw
  ELSE IF idx > 0
  THEN FlipIfNegative(path, idx, SegmentYaw(path, idx - 1, idx))
  ELSE IF idx < Size(path) - 1
  THEN FlipIfNegative(path, idx + 1, SegmentYaw(path, idx, idx + 1))
  ELSE WP(path, idx).yaw

----------------------------------------------------------------------------
(* getLaneDirection                                                         *)

RECURSIVE PositionScan(_, _)
PositionScan(path, k) ==
  IF k >= Size(path) THEN Error
  ELSE LET rlt_x == RelativeX(WP(path, k), WP(path, k - 1))
       IN  IF Abs(rlt_x) < PosThreshold THEN PositionScan(path, k + 1)
           ELSE IF rlt_x < 0 THEN Backward ELSE Forward

getLaneDirectionByPosition(path) ==
  IF Size(path) < 2 THEN Error ELSE PositionScan(path, 1)

RECURSIVE VelocityScan(_, _)
VelocityScan(path, k) ==
  IF k >= Size(path) THEN Error
  ELSE LET vel == WP(path, k).vel
       IN  IF Abs(vel) < VelThreshold THEN VelocityScan(path, k + 1)
           ELSE IF vel < 0 THEN Backward ELSE Forward

getLaneDirectionByVelocity(path) == VelocityScan(path, 0)

\* Combine without the conflict test: the positional estimate wins
Combine_NoConflict(pos_ret, vel_ret) ==
  IF pos_ret # Error THEN pos_ret ELSE vel_ret

Combine(pos_ret, vel_ret) ==
  LET is_conflict == pos_ret # vel_ret /\ pos_ret # Error /\ vel_ret # Error
  IN  IF is_conflict THEN Error ELSE IF pos_ret # Error THEN pos_ret ELSE vel_ret

getLaneDirection(path) ==
  Combine(getLaneDirectionByPosition(path), getLaneDirectionByVelocity(path))

----------------------------------------------------------------------------
(* getClosestIndex                                                          *)

\* first loop: the nearest waypoint among those closer than valid_distance
\* whose heading differs from the robot's by less than valid_angle.
\* st = [closest_index, min_distance], distances squared.
\* GatedSearch without the heading test
RECURSIVE GatedSearch_NoHeading(_, _, _, _)
GatedSearch_NoHeading(path, pose, k, st) ==
  IF k >= Size(path) THEN st
  ELSE LET distance == PlaneDistance2(WP(path, k), pose)
       IN  IF distance < st.min_distance
           THEN GatedSearch_NoHeading(path, pose, k + 1,
                                      [closest_index |-> k, min_distance |-> distance])
           ELSE GatedSearch_NoHeading(path, pose, k + 1, st)

RECURSIVE GatedSearch(_, _, _, _)
GatedSearch(path, pose, k, st) ==
  IF k >= Size(path) THEN st
  ELSE LET distance == PlaneDistance2(WP(path, k), pose)
           waypoint_yaw == getWaypointYaw(path, k)
           angle_diff == normalizeAngle(waypoint_yaw - pose.yaw)
       IN  IF distance < st.min_distance /\ Abs(angle_diff) < valid_angle
           THEN GatedSearch(path, pose, k + 1,
                            [closest_index |-> k, min_distance |-> distance])
           ELSE GatedSearch(path, pose, k + 1, st)

\* NearestSearch that keeps the distance limit of the first loop
RECURSIVE NearestSearch_Bounded(_, _, _, _)
NearestSearch_Bounded(path, pose, k, st) ==
  IF k >= Size(path) THEN st
  ELSE LET distance == PlaneDistance2(WP(path, k), pose)
       IN  IF distance < st.min_distance /\ distance < valid_distance * valid_distance
           THEN NearestSearch_Bounded(path, pose, k + 1,
                                      [closest_index |-> k, min_distance |-> distance])
           ELSE NearestSearch_Bounded(path, pose, k + 1, st)

\* second loop: the nearest waypoint, heading ignored
RECURSIVE NearestSearch(_, _, _, _)
NearestSearch(path, pose, k, st) ==
  IF k >= Size(path) THEN st
  ELSE LET distance == PlaneDistance2(WP(path, k), pose)
       IN  IF distance < st.min_distance
           THEN NearestSearch(path, pose, k + 1,
                              [closest_index |-> k, min_distance |-> distance])
           ELSE NearestSearch(path, pose, k + 1, st)

\* the result of the first loop of getClosestIndex
GatedResult(path, pose) ==
  GatedSearch(path, pose, 0,
    [closest_index |-> -1, min_distance |-> valid_distance * valid_distance])

\* getClosestIndex without the second loop
getClosestIndex_NoFallback(path, pose) ==
  IF Size(path) < 2 THEN -1 ELSE GatedResult(path, pose).closest_index

getClosestIndex(path, pose) ==
  IF Size(path) < 2 THEN -1
  ELSE LET gated == GatedResult(path, pose)
       IN  IF gated.closest_index # -1 THEN gated.closest_index
           ELSE NearestSearch(path, pose, 0,
                  [closest_index |-> -1, min_distance |-> DBL_MAX]).closest_index

----------------------------------------------------------------------------
(* updateCurrentIndex                                                       *)

\* OffsetDelta whose second branch does not test the sign of the offset
OffsetDelta_NoSignGuard(path, pose, k, off) ==
  LET prev_velocity == WP(path, k - 1).vel
      current_velocity == WP(path, k).vel
      next_velocity == WP(path, k + 1).vel
      prev_dist == PlaneDistance2(pose, WP(path, k - 1))
      current_distance == PlaneDistance2(pose, WP(path, k))
      next_distance == PlaneDistance2(pose, WP(path, k + 1))
  IN  IF current_velocity * next_velocity < 0 /\ off >= 0 THEN 1
      ELSE IF current_velocity * next_velocity > 0 /\ next_distance < current_distance
      THEN 1
      ELSE IF prev_velocity * current_velocity > 0 /\ prev_dist < current_distance
              /\ off <= 0 THEN -1
      ELSE 0

\* OffsetDelta without the switchback branch
OffsetDelta_NoSwitchback(path, pose, k, off) ==
  LET prev_velocity == WP(path, k - 1).vel
      current_velocity == WP(path, k).vel
      next_velocity == WP(path, k + 1).vel
      prev_dist == PlaneDistance2(pose, WP(path, k - 1))
      current_distance == PlaneDistance2(pose, WP(path, k))
      next_distance == PlaneDistance2(pose, WP(path, k + 1))
  IN  IF current_velocity * next_velocity > 0 /\ next_distance < current_distance
         /\ off >= 0 THEN 1
      ELSE IF prev_velocity * current_velocity > 0 /\ prev_dist < current_distance
              /\ off <= 0 THEN -1
      ELSE 0

\* OffsetDelta that takes a zero speed product for speeds of one sign
OffsetDelta_ZeroSameSign(path, pose, k, off) ==
  LET prev_velocity == WP(path, k - 1).vel
      current_velocity == WP(path, k).vel
      next_velocity == WP(path, k + 1).vel
      prev_dist == PlaneDistance2(pose, WP(path, k - 1))
      current_distance == PlaneDistance2(pose, WP(path, k))
      next_distance == PlaneDistance2(pose, WP(path, k + 1))
  IN  IF current_velocity * next_velocity < 0 /\ off >= 0 THEN 1
      ELSE IF current_velocity * next_velocity >= 0 /\ next_distance < current_distance
              /\ off >= 0 THEN 1
      ELSE IF prev_velocity * current_velocity >= 0 /\ prev_dist < current_distance
              /\ off <= 0 THEN -1
      ELSE 0

\* one iteration of the offset search at loop index k with running offset
\* off: +1, -1, or 0 for the break
OffsetDelta(path, pose, k, off) ==
  LET prev_velocity == WP(path, k - 1).vel
      current_velocity == WP(path, k).vel
      next_velocity == WP(path, k + 1).vel
      prev_dist == PlaneDistance2(pose, WP(path, k - 1))
      current_distance == PlaneDistance2(pose, WP(path, k))
      next_distance == PlaneDistance2(pose, WP(path, k + 1))
  IN  IF current_velocity * next_velocity < 0 /\ off >= 0 THEN 1
      ELSE IF current_velocity * next_velocity > 0 /\ next_distance < current_distance
              /\ off >= 0 THEN 1
      ELSE IF prev_velocity * current_velocity > 0 /\ prev_dist < current_distance
              /\ off <= 0 THEN -1
      ELSE 0

\* the offset search loop from loop index k on
RECURSIVE OffsetSearch(_, _, _, _)
OffsetSearch(path, pose, k, off) ==
  IF k < Size(path) - 1 /\ OffsetDelta(path, pose, k, off) # 0
  THEN OffsetSearch(path, pose, k + 1, off + OffsetDelta(path, pose, k, off))
  ELSE off

Clamp(k, path_size) == Min(Max(0, k), path_size - 1)

\* start_index after the offset search and the clamp
StartIndex(path, pose, idx) ==
  Clamp(IF idx < Size(path) - 1 /\ idx > 0
        THEN idx + OffsetSearch(path, pose, idx, 0)
        ELSE idx,
        Size(path))

\* ScanFrom that steps back two waypoints when the distance increases
RECURSIVE ScanFrom_OffByOne(_, _, _, _, _)
ScanFrom_OffByOne(path, pose, k, prev_dist, nxt) ==
  IF k >= Size(path) THEN nxt
  ELSE LET current_distance == PlaneDistance2(WP(path, k), pose)
       IN  IF current_distance > prev_dist THEN k - 2
           ELSE ScanFrom_OffByOne(path, pose, k + 1, current_distance, nxt)

\* the forward scan from loop index k on; nxt is next_index so far
RECURSIVE ScanFrom(_, _, _, _, _)
ScanFrom(path, pose, k, prev_dist, nxt) ==
  IF k >= Size(path) THEN nxt
  ELSE LET current_distance == PlaneDistance2(WP(path, k), pose)
       IN  IF current_distance > prev_dist THEN k - 1
           ELSE ScanFrom(path, pose, k + 1, current_distance, nxt)

ForwardScan(path, pose, start, idx) ==
  Clamp(ScanFrom(path, pose, start, DBL_MAX, idx), Size(path))

updateCurrentIndex(path, pose, idx) ==
  IF Size(path) < 2 \/ idx > Size(path) - 1 THEN -1
  ELSE IF idx < 0 THEN getClosestIndex(path, pose)
  ELSE ForwardScan(path, pose, StartIndex(path, pose, idx), idx)

----------------------------------------------------------------------------
(* Inputs.                                                                  *)

\* longest path given to updateCurrentIndex and getClosestIndex
MaxLen == 4

\* steps between consecutive waypoints: east, north, west (a path that
\* doubles back on itself)
Moves == {<<1, 0>>, <<0, 1>>, <<-1, 0>>}
\* target speeds in mm/s
Speeds == {-2000, 0, 2000}

\* the paths of exactly n waypoints that start at the origin
RECURSIVE PathsOf(_, _, _, _)
PathsOf(n, moves, speeds, yaws) ==
  IF n = 0 THEN {<<>>}
  ELSE IF n = 1
  THEN {<<[x |-> 0, y |-> 0, yaw |-> a, vel |-> v]>> : a \in yaws, v \in speeds}
  ELSE {Append(p, [x |-> p[n - 1].x + m[1], y |-> p[n - 1].y + m[2],
                   yaw |-> a, vel |-> v]) :
          p \in PathsOf(n - 1, moves, speeds, yaws),
          m \in moves, a \in yaws, v \in speeds}

PathsUpTo(n, moves, speeds, yaws) ==
  UNION {PathsOf(k, moves, speeds, yaws) : k \in 0..n}

\* vehicle positions: on and beside the path, and one far from every waypoint
PosePoints ==
  {<<0, 0>>, <<1, 0>>, <<2, 0>>, <<3, 0>>, <<1, 1>>, <<0, 2>>, <<9, 9>>}
\* vehicle headings: east, north-east, north, west, south
PoseYaws == {0, 2, 4, 8, -4}

PoseOf(pt, a) == [x |-> pt[1], y |-> pt[2], yaw |-> a]

\* the variables a run of one entry point leaves alone
Idle ==
  /\ i = 0 /\ start_index = 0 /\ start_index_offset = 0
  /\ calls = 0 /\ progress = 0 /\ angle_in = 0 /\ res = 0
  /\ behind_yaw = 0 /\ front_yaw = 0

path_size == Size(current_path)

----------------------------------------------------------------------------
(* One call of updateCurrentIndex, the offset search step by step.          *)

Init ==
  /\ mode = "update"
  /\ current_path \in PathsUpTo(MaxLen, Moves, Speeds, {0})
  /\ current_index \in -2..Len(current_path)
  /\ \E pt \in PosePoints :
       \E a \in (IF current_index < 0 THEN {0, M_PI} ELSE {0}) :
         current_pose = PoseOf(pt, a)
  /\ pc = "entry"
  /\ ret = "none"
  /\ Idle

\* lines 378-382: too few waypoints, or an index past the end
UpdateReject ==
  /\ pc = "entry"
  /\ path_size < 2 \/ current_index > path_size - 1
  /\ ret' = -1
  /\ pc' = "done"
  /\ UNCHANGED <<mode, current_path, current_pose, current_index, i, start_index,
                 start_index_offset, calls, progress, angle_in, res,
                 behind_yaw, front_yaw>>

\* lines 385-390: no previous index, the cold start decides
UpdateColdStart ==
  /\ pc = "entry"
  /\ ~(path_size < 2 \/ current_index > path_size - 1)
  /\ current_index < 0
  /\ ret' = getClosestIndex(current_path, current_pose)
  /\ pc' = "done"
  /\ UNCHANGED <<mode, current_path, current_pose, current_index, i, start_index,
                 start_index_offset, calls, progress, angle_in, res,
                 behind_yaw, front_yaw>>

\* lines 400-404: a strictly interior index enters the offset search
UpdateEnterOffset ==
  /\ pc = "entry"
  /\ ~(path_size < 2 \/ current_index > path_size - 1)
  /\ current_index >= 0
  /\ current_index < path_size - 1 /\ current_index > 0
  /\ start_index' = current_index
  /\ start_index_offset' = 0
  /\ i' = current_index
  /\ pc' = "offset"
  /\ UNCHANGED <<mode, current_path, current_pose, current_index, ret, calls,
                 progress, angle_in, res,
                 behind_yaw, front_yaw>>

\* lines 400-401, 437: the first or the last index skips the offset search
UpdateSkipOffset ==
  /\ pc = "entry"
  /\ ~(path_size < 2 \/ current_index > path_size - 1)
  /\ current_index >= 0
  /\ ~(current_index < path_size - 1 /\ current_index > 0)
  /\ start_index' = Clamp(current_index, path_size)
  /\ pc' = "scan"
  /\ UNCHANGED <<mode, current_path, current_pose, current_index, i,
                 start_index_offset, ret, calls, progress, angle_in, res,
                 behind_yaw, front_yaw>>

\* lines 404-429: an iteration of the offset search that does not break
OffsetIter ==
  /\ pc = "offset"
  /\ i < path_size - 1
  /\ OffsetDelta(current_path, current_pose, i, start_index_offset) # 0
  /\ start_index_offset' =
       start_index_offset + OffsetDelta(current_path, current_pose, i, start_index_offset)
  /\ i' = i + 1
  /\ UNCHANGED <<mode, current_path, current_pose, current_index, pc, start_index,
                 ret, calls, progress, angle_in, res,
                 behind_yaw, front_yaw>>

\* lines 404, 430-437: the break or the end of the loop, then the clamp
OffsetExit ==
  /\ pc = "offset"
  /\ ~(i < path_size - 1
        /\ OffsetDelta(current_path, current_pose, i, start_index_offset) # 0)
  /\ start_index' = Clamp(start_index + start_index_offset, path_size)
  /\ pc' = "scan"
  /\ UNCHANGED <<mode, current_path, current_pose, current_index, i,
                 start_index_offset, ret, calls, progress, angle_in, res,
                 behind_yaw, front_yaw>>

\* lines 439-458: the forward scan, the clamp and the return
Scan ==
  /\ pc = "scan"
  /\ ret' = ForwardScan(current_path, current_pose, start_index, current_index)
  /\ pc' = "done"
  /\ UNCHANGED <<mode, current_path, current_pose, current_index, i, start_index,
                 start_index_offset, calls, progress, angle_in, res,
                 behind_yaw, front_yaw>>

Next ==
  \/ UpdateReject
  \/ UpdateColdStart
  \/ UpdateEnterOffset
  \/ UpdateSkipOffset
  \/ OffsetIter
  \/ OffsetExit
  \/ Scan

Spec == Init /\ [][Next]_vars

\* the stepwise call returns what the function computes in one piece
StepwiseAgrees ==
  pc = "done" => ret = updateCurrentIndex(current_path, current_pose, current_index)

----------------------------------------------------------------------------
(* One call of getClosestIndex.                                             *)

\* steps between consecutive waypoints of a cold-start path: east,
\* north-east, north, west
ColdMoves == {<<1, 0>>, <<1, 1>>, <<0, 1>>, <<-1, 0>>}
ColdSpeeds == {-2000, 2000}

ColdInit ==
  /\ mode = "closest"
  /\ current_path \in PathsUpTo(MaxLen, ColdMoves, ColdSpeeds, {0})
  /\ \E pt \in PosePoints : \E a \in PoseYaws : current_pose = PoseOf(pt, a)
  /\ current_index = -1
  /\ pc = "closest"
  /\ ret = "none"
  /\ Idle

\* lines 329-333: too few waypoints
ClosestReject ==
  /\ pc = "closest"
  /\ path_size < 2
  /\ ret' = getClosestIndex(current_path, current_pose)
  /\ pc' = "done"
  /\ UNCHANGED <<mode, current_path, current_pose, current_index, i, start_index,
                 start_index_offset, calls, progress, angle_in, res,
                 behind_yaw, front_yaw>>

\* lines 336-361: the first loop finds a waypoint
ClosestGated ==
  /\ pc = "closest"
  /\ path_size >= 2
  /\ GatedResult(current_path, current_pose).closest_index # -1
  /\ ret' = getClosestIndex(current_path, current_pose)
  /\ pc' = "done"
  /\ UNCHANGED <<mode, current_path, current_pose, current_index, i, start_index,
                 start_index_offset, calls, progress, angle_in, res,
                 behind_yaw, front_yaw>>

\* lines 336-373: the first loop finds nothing, the second loop decides
ClosestFallback ==
  /\ pc = "closest"
  /\ path_size >= 2
  /\ GatedResult(current_path, current_pose).closest_index = -1
  /\ ret' = getClosestIndex(current_path, current_pose)
  /\ pc' = "done"
  /\ UNCHANGED <<mode, current_path, current_pose, current_index, i, start_index,
                 start_index_offset, calls, progress, angle_in, res,
                 behind_yaw, front_yaw>>

ColdNext == ClosestReject \/ ClosestGated \/ ClosestFallback

SpecCold == ColdInit /\ [][ColdNext]_vars

----------------------------------------------------------------------------
(* One call of getLaneDirection.                                            *)

\* longest path given to getLaneDirection
LaneMaxLen == 3

\* east, north, and a waypoint repeated in place
LaneMoves == {<<1, 0>>, <<0, 1>>, <<0, 0>>}
\* -5 mm/s is below the velocity threshold
LaneSpeeds == {-2000, -5, 2000}
\* stored orientations: facing east and facing west
LaneYaws == {0, M_PI}

LaneInit ==
  /\ mode = "direction"
  /\ current_path \in PathsUpTo(LaneMaxLen, LaneMoves, LaneSpeeds, LaneYaws)
  /\ current_pose = PoseOf(<<0, 0>>, 0)
  /\ current_index = -1
  /\ pc = "direction"
  /\ ret = "none"
  /\ Idle

\* lines 252-259
LaneDirectionCall ==
  /\ pc = "direction"
  /\ ret' = getLaneDirection(current_path)
  /\ pc' = "done"
  /\ UNCHANGED <<mode, current_path, current_pose, current_index, i, start_index,
                 start_index_offset, calls, progress, angle_in, res,
                 behind_yaw, front_yaw>>

LaneNext == LaneDirectionCall

SpecLane == LaneInit /\ [][LaneNext]_vars

----------------------------------------------------------------------------
(* One call of normalizeAngle, loop iteration by loop iteration.            *)

\* largest |angle| given to normalizeAngle, in units of pi/8 (40 is 5 pi)
MaxAngle == 40

AngleInit ==
  /\ mode = "normalize"
  /\ current_path = <<>>
  /\ current_pose = PoseOf(<<0, 0>>, 0)
  /\ current_index = -1
  /\ pc = "down"
  /\ ret = "none"
  /\ i = 0 /\ start_index = 0 /\ start_index_offset = 0
  /\ calls = 0 /\ progress = 0
  /\ angle_in \in -MaxAngle..MaxAngle
  /\ res = angle_in
  /\ behind_yaw = 0 /\ front_yaw = 0

\* lines 634-637: an iteration of the first loop
NormalizeSubtract ==
  /\ pc = "down"
  /\ res > M_PI
  /\ res' = res - 2 * M_PI
  /\ UNCHANGED <<mode, current_path, current_pose, current_index, pc, i, start_index,
                 start_index_offset, ret, calls, progress, angle_in,
                 behind_yaw, front_yaw>>

\* line 634: the first loop ends
NormalizeSubtractDone ==
  /\ pc = "down"
  /\ ~(res > M_PI)
  /\ pc' = "up"
  /\ UNCHANGED <<mode, current_path, current_pose, current_index, i, start_index,
                 start_index_offset, ret, calls, progress, angle_in, res,
                 behind_yaw, front_yaw>>

\* lines 638-641: an iteration of the second loop
NormalizeAdd ==
  /\ pc = "up"
  /\ res < -M_PI
  /\ res' = res + 2 * M_PI
  /\ UNCHANGED <<mode, current_path, current_pose, current_index, pc, i, start_index,
                 start_index_offset, ret, calls, progress, angle_in,
                 behind_yaw, front_yaw>>

\* lines 638, 643: the second loop ends and the value is returned
NormalizeReturn ==
  /\ pc = "up"
  /\ ~(res < -M_PI)
  /\ ret' = res
  /\ pc' = "done"
  /\ UNCHANGED <<mode, current_path, current_pose, current_index, i, start_index,
                 start_index_offset, calls, progress, angle_in, res,
                 behind_yaw, front_yaw>>

AngleNext ==
  \/ NormalizeSubtract
  \/ NormalizeSubtractDone
  \/ NormalizeAdd
  \/ NormalizeReturn

SpecAngle == AngleInit /\ [][AngleNext]_vars

\* the loops return what normalizeAngle computes in one piece
AngleStepwiseAgrees == pc = "done" => ret = normalizeAngle(angle_in)

----------------------------------------------------------------------------
(* One call of getWaypointYaw, the segment headings first.                  *)

\* longest path given to getWaypointYaw
YawMaxLen == 3

\* stored orientation of the waypoints: facing north
YawYaws == {M_PI \div 2}

YawInit ==
  /\ mode = "yaw"
  /\ current_path \in PathsUpTo(YawMaxLen, ColdMoves, Speeds, YawYaws) \ {<<>>}
  /\ current_index \in 0..(Len(current_path) - 1)
  /\ current_pose = PoseOf(<<0, 0>>, 0)
  /\ pc = "yaw"
  /\ ret = "none"
  /\ Idle

\* lines 186-210: an interior index, the headings of both segments
YawInterior ==
  /\ pc = "yaw"
  /\ current_index > 0 /\ current_index < path_size - 1
  /\ behind_yaw' =
       FlipIfNegative(current_path, current_index,
                      SegmentYaw(current_path, current_index - 1, current_index))
  /\ front_yaw' =
       FlipIfNegative(current_path, current_index + 1,
                      SegmentYaw(current_path, current_index, current_index + 1))
  /\ pc' = "combine"
  /\ UNCHANGED <<mode, current_path, current_pose, current_index, i, start_index,
                 start_index_offset, ret, calls, progress, angle_in, res>>

\* lines 211-215, 249: the headings differ by less than pi, the bisector
YawBisector ==
  /\ pc = "combine"
  /\ LET angle_diff == normalizeAngle(front_yaw - behind_yaw)
     IN  /\ Abs(angle_diff) < M_PI
         /\ ret' = normalizeAngle(behind_yaw + angle_diff \div 2)
  /\ pc' = "done"
  /\ UNCHANGED <<mode, current_path, current_pose, current_index, i, start_index,
                 start_index_offset, calls, progress, angle_in, res,
                 behind_yaw, front_yaw>>

\* lines 211-219, 249: the headings are opposed, the outgoing heading
YawFront ==
  /\ pc = "combine"
  /\ LET angle_diff == normalizeAngle(front_yaw - behind_yaw)
     IN  ~(Abs(angle_diff) < M_PI)
  /\ ret' = front_yaw
  /\ pc' = "done"
  /\ UNCHANGED <<mode, current_path, current_pose, current_index, i, start_index,
                 start_index_offset, calls, progress, angle_in, res,
                 behind_yaw, front_yaw>>

\* lines 221-234, 249: the last index of a path of several waypoints
YawLast ==
  /\ pc = "yaw"
  /\ ~(current_index > 0 /\ current_index < path_size - 1)
  /\ current_index > 0
  /\ behind_yaw' =
       FlipIfNegative(current_path, current_index,
                      SegmentYaw(current_path, current_index - 1, current_index))
  /\ ret' = behind_yaw'
  /\ pc' = "done"
  /\ UNCHANGED <<mode, current_path, current_pose, current_index, i, start_index,
                 start_index_offset, calls, progress, angle_in, res, front_yaw>>

\* lines 235-249: the first index of a path of several waypoints
YawFirst ==
  /\ pc = "yaw"
  /\ ~(current_index > 0)
  /\ current_index < path_size - 1
  /\ front_yaw' =
       FlipIfNegative(current_path, current_index + 1,
                      SegmentYaw(current_path, current_index, current_index + 1))
  /\ ret' = front_yaw'
  /\ pc' = "done"
  /\ UNCHANGED <<mode, current_path, current_pose, current_index, i, start_index,
                 start_index_offset, calls, progress, angle_in, res, behind_yaw>>

\* lines 185, 249: a single waypoint, its stored orientation
YawStored ==
  /\ pc = "yaw"
  /\ ~(current_index > 0)
  /\ ~(current_index < path_size - 1)
  /\ ret' = WP(current_path, current_index).yaw
  /\ pc' = "done"
  /\ UNCHANGED <<mode, current_path, current_pose, current_index, i, start_index,
                 start_index_offset, calls, progress, angle_in, res,
                 behind_yaw, front_yaw>>

YawNext ==
  \/ YawInterior
  \/ YawBisector
  \/ YawFront
  \/ YawLast
  \/ YawFirst
  \/ YawStored

SpecYaw == YawInit /\ [][YawNext]_vars

\* the steps return what getWaypointYaw computes in one piece
YawStepwiseAgrees ==
  (pc = "done" /\ mode = "yaw") => ret = getWaypointYaw(current_path, current_index)

----------------------------------------------------------------------------
(* A caller that keeps the returned index and hands it to the next call.    *)

\* calls of updateCurrentIndex the caller makes in a row
MaxCalls == 3

TrackInit ==
  /\ mode = "track"
  /\ pc = "caller"
  /\ ret = "none"
  /\ i = 0 /\ start_index = 0 /\ start_index_offset = 0
  /\ calls = 0 /\ angle_in = 0 /\ res = 0
  /\ behind_yaw = 0 /\ front_yaw = 0

\* the first call, with the index the caller starts from
FirstCall ==
  /\ pc = "caller"
  /\ calls = 0
  /\ ret' = updateCurrentIndex(current_path, current_pose, current_index)
  /\ calls' = 1
  /\ UNCHANGED <<mode, current_path, current_pose, current_index, pc, i, start_index,
                 start_index_offset, progress, angle_in, res,
                 behind_yaw, front_yaw>>

\* a further call with the returned index and the same pose
RecallSamePose ==
  /\ pc = "caller"
  /\ calls > 0 /\ calls < MaxCalls
  /\ ret >= 0
  /\ current_index' = ret
  /\ ret' = updateCurrentIndex(current_path, current_pose, ret)
  /\ calls' = calls + 1
  /\ UNCHANGED <<mode, current_path, current_pose, pc, i, start_index,
                 start_index_offset, progress, angle_in, res,
                 behind_yaw, front_yaw>>

\* longest path of the stationary vehicle
StationaryMaxLen == 6

StationaryInit ==
  /\ TrackInit
  /\ current_path \in
       PathsUpTo(StationaryMaxLen, {<<1, 0>>, <<-1, 0>>}, {-2000, 2000}, {0})
  /\ Len(current_path) >= 2
  /\ current_index \in 0..(Len(current_path) - 1)
  /\ \E pt \in PosePoints : current_pose = PoseOf(pt, 0)
  /\ progress = 0

StationaryNext == FirstCall \/ RecallSamePose

SpecStationary == StationaryInit /\ [][StationaryNext]_vars

\* longest path of the advancing vehicle
AdvanceMaxLen == 6

\* every target speed has the same strict sign
SameSign(path) ==
  \/ \A k \in 1..Len(path) : path[k].vel > 0
  \/ \A k \in 1..Len(path) : path[k].vel < 0

\* no two waypoints share a position
Simple(path) ==
  \A a, b \in 1..Len(path) :
    a # b => <<path[a].x, path[a].y>> # <<path[b].x, path[b].y>>

AdvancePaths ==
  {p \in PathsUpTo(AdvanceMaxLen, Moves, {2000}, {0})
         \cup PathsUpTo(AdvanceMaxLen, Moves, {-2000}, {0}) :
     Len(p) >= 2 /\ Simple(p)}

\* the vehicle standing on waypoint k
PoseAt(path, k) == PoseOf(<<WP(path, k).x, WP(path, k).y>>, 0)

\* the vehicle stands on a waypoint and the caller starts from that waypoint
AdvanceInit ==
  /\ TrackInit
  /\ current_path \in AdvancePaths
  /\ progress \in 0..(Len(current_path) - 1)
  /\ current_index = progress
  /\ current_pose = PoseAt(current_path, progress)

\* a further call with the returned index, the vehicle on the same or a later
\* waypoint of the path
RecallAdvanced ==
  /\ pc = "caller"
  /\ calls > 0 /\ calls < MaxCalls
  /\ ret >= 0
  /\ \E k \in progress..(Len(current_path) - 1) :
       /\ progress' = k
       /\ current_pose' = PoseAt(current_path, k)
       /\ ret' = updateCurrentIndex(current_path, PoseAt(current_path, k), ret)
  /\ current_index' = ret
  /\ calls' = calls + 1
  /\ UNCHANGED <<mode, current_path, pc, i, start_index, start_index_offset,
                 angle_in, res,
                 behind_yaw, front_yaw>>

AdvanceNext == FirstCall \/ RecallAdvanced

SpecAdvance == AdvanceInit /\ [][AdvanceNext]_vars

----------------------------------------------------------------------------
(* Claims.                                                                  *)

\* a call of updateCurrentIndex in its warm phase
WarmCall ==
  /\ mode = "update"
  /\ path_size >= 2
  /\ current_index >= 0 /\ current_index <= path_size - 1

\* the distance to the pose never strictly increases from waypoint start on
NeverIncreases(path, pose, start) ==
  \A k \in (start + 1)..(Size(path) - 1) :
    PlaneDistance2(WP(path, k), pose) <= PlaneDistance2(WP(path, k - 1), pose)

\* C1: in the warm phase, when the distance to the pose never strictly
\* increases from start_index to the end of the path, updateCurrentIndex
\* returns the last index of the path.
C1_ScanReachesEnd ==
  (pc = "done" /\ WarmCall
     /\ NeverIncreases(current_path, current_pose, start_index))
    => ret = path_size - 1

\* C2: with a fixed pose, the third of three calls that each take the index
\* the call before returned gives back the index it was given.
C2_StationaryConverges ==
  (pc = "caller" /\ calls = 3) => ret = current_index

\* C3: updateCurrentIndex returns -1 exactly when the path has fewer than 2
\* waypoints or the index is past the end; otherwise, negative indices
\* included, the result is an index of the path.
C3_SentinelExactly ==
  (pc = "done" /\ mode = "update") =>
    IF path_size < 2 \/ current_index > path_size - 1
    THEN ret = -1
    ELSE ret \in 0..(path_size - 1)

\* a negative index on a path where no waypoint passes the gates
C3_Witness ==
  /\ pc = "done" /\ mode = "update"
  /\ path_size >= 2
  /\ current_index = -2
  /\ GatedResult(current_path, current_pose).closest_index = -1
  /\ ret \in 0..(path_size - 1)

\* waypoint k is within valid_distance of the pose and its heading differs
\* from the pose's by less than valid_angle
Gated(path, pose, k) ==
  /\ PlaneDistance2(WP(path, k), pose) < valid_distance * valid_distance
  /\ Abs(normalizeAngle(getWaypointYaw(path, k) - pose.yaw)) < valid_angle

\* C4: on a path of at least 2 waypoints getClosestIndex returns an index of
\* the path, never -1, also when no waypoint passes the gates.
C4_ColdStartValid ==
  (pc = "done" /\ mode = "closest" /\ path_size >= 2) =>
    ret \in 0..(path_size - 1)

C4_Witness ==
  /\ pc = "done" /\ mode = "closest"
  /\ path_size >= 2
  /\ \A k \in 0..(path_size - 1) : ~Gated(current_path, current_pose, k)
  /\ ret \in 0..(path_size - 1)

\* the offset the offset search of the latest call ended with (0 when the
\* index was the first or the last, which skips the search)
LastOffset ==
  IF current_index < path_size - 1 /\ current_index > 0
  THEN OffsetSearch(current_path, current_pose, current_index, 0)
  ELSE 0

\* C5 as stated: on a path whose speeds keep one sign, with the vehicle
\* advancing along the path and every call given the index the call before
\* returned, no call returns a smaller index than the call before it.
C5_NonDecreasing ==
  (pc = "caller" /\ calls >= 2) => ret >= current_index

\* C5 as amended: under the same conditions a call returns an index at least
\* as large as the one it was given, unless its offset search ended with a
\* negative offset (the vehicle is nearer to the waypoint behind the index).
C5_NonDecreasingUnlessRetreat ==
  (pc = "caller" /\ calls >= 1 /\ LastOffset >= 0) => ret >= current_index

\* a later call, the vehicle moved on, the index advanced
C5_Witness ==
  /\ pc = "caller" /\ calls >= 2
  /\ LastOffset >= 0
  /\ progress > current_index
  /\ ret > current_index

\* C6: getLaneDirection returns Error for every path of fewer than 2
\* waypoints, whatever the speed of the single waypoint.
C6_ShortPathIsError ==
  (pc = "done" /\ mode = "direction" /\ path_size < 2) => ret = Error

\* the waypoints that pass both gates of the first loop
GatedSet(path, pose) == {k \in 0..(Size(path) - 1) : Gated(path, pose, k)}

\* C7: getClosestIndex returns a waypoint of least distance among the
\* waypoints that pass both gates when there is one, and a waypoint of least
\* distance among all waypoints otherwise.
C7_SelectionRule ==
  (pc = "done" /\ mode = "closest" /\ path_size >= 2) =>
    LET gated == GatedSet(current_path, current_pose)
        candidates == IF gated # {} THEN gated ELSE 0..(path_size - 1)
    IN  /\ ret \in candidates
        /\ \A k \in candidates :
             PlaneDistance2(WP(current_path, ret), current_pose)
               <= PlaneDistance2(WP(current_path, k), current_pose)

\* a waypoint passes the gates while a strictly nearer one fails the heading
\* gate
C7_Witness ==
  /\ pc = "done" /\ mode = "closest" /\ path_size >= 2
  /\ GatedSet(current_path, current_pose) # {}
  /\ ret \in GatedSet(current_path, current_pose)
  /\ \E k \in 0..(path_size - 1) :
       /\ k \notin GatedSet(current_path, current_pose)
       /\ PlaneDistance2(WP(current_path, k), current_pose)
            < PlaneDistance2(WP(current_path, ret), current_pose)

\* C8: getLaneDirection is Error when the positional and the velocity
\* estimate are both not Error and differ; otherwise it is the positional
\* estimate unless that is Error, and then the velocity estimate.
C8_CombinationRule ==
  (pc = "done" /\ mode = "direction") =>
    LET pos_ret == getLaneDirectionByPosition(current_path)
        vel_ret == getLaneDirectionByVelocity(current_path)
    IN  ret = CASE pos_ret = Forward /\ vel_ret = Forward -> Forward
                [] pos_ret = Forward /\ vel_ret = Backward -> Error
                [] pos_ret = Forward /\ vel_ret = Error -> Forward
                [] pos_ret = Backward /\ vel_ret = Forward -> Error
                [] pos_ret = Backward /\ vel_ret = Backward -> Backward
                [] pos_ret = Backward /\ vel_ret = Error -> Backward
                [] pos_ret = Error /\ vel_ret = Forward -> Forward
                [] pos_ret = Error /\ vel_ret = Backward -> Backward
                [] pos_ret = Error /\ vel_ret = Error -> Error

\* the estimates conflict
C8_Witness ==
  /\ pc = "done" /\ mode = "direction"
  /\ getLaneDirectionByPosition(current_path) = Backward
  /\ getLaneDirectionByVelocity(current_path) = Forward
  /\ ret = Error

\* C9: normalizeAngle returns a value in (-pi, pi] that differs from its
\* argument by a multiple of 2 pi.
C9_HalfOpenRange ==
  (pc = "done" /\ mode = "normalize") =>
    /\ -M_PI < ret /\ ret <= M_PI
    /\ (ret - angle_in) % (2 * M_PI) = 0

\* C10: while the offset search runs, a positive offset only grows and a
\* negative offset only shrinks, and after every iteration |offset| is the
\* number of iterations that did not stop (i - current_index).
C10_OffsetKeepsSign ==
  [][pc = "offset" =>
       /\ start_index_offset > 0 => start_index_offset' >= start_index_offset
       /\ start_index_offset < 0 => start_index_offset' <= start_index_offset
       /\ Abs(start_index_offset') = i' - current_index']_vars

\* the offset is negative and the next iteration sees a waypoint ahead that
\* is nearer and has the same speed sign: only the sign test stops a +1 step
C10_Witness ==
  /\ pc = "offset"
  /\ start_index_offset < 0
  /\ i < path_size - 1
  /\ WP(current_path, i).vel * WP(current_path, i + 1).vel > 0
  /\ PlaneDistance2(current_pose, WP(current_path, i + 1))
       < PlaneDistance2(current_pose, WP(current_path, i))

\* a warm call whose index is strictly interior, past its offset search
PastOffsetSearch ==
  /\ WarmCall
  /\ current_index > 0 /\ current_index < path_size - 1
  /\ pc \in {"scan", "done"}

\* C12: when the index is strictly interior and the speeds at the index and
\* at the next waypoint have a negative product, the offset search ends with
\* an offset of at least +1, wherever the pose is, and the forward scan
\* starts at the next waypoint or later.
C12_SwitchbackAdvances ==
  (PastOffsetSearch
     /\ WP(current_path, current_index).vel
          * WP(current_path, current_index + 1).vel < 0)
    => /\ start_index_offset >= 1
       /\ start_index >= current_index + 1

\* speeds [2, 2, -2, -2], index 1, the pose strictly nearer to waypoint 0 than
\* to waypoint 1 and no nearer to waypoint 2: without the switchback the
\* search would retreat
C12_Witness ==
  /\ PastOffsetSearch
  /\ path_size = 4
  /\ current_index = 1
  /\ \A k \in 0..3 :
       WP(current_path, k).vel = (IF k < 2 THEN 2000 ELSE -2000)
  /\ PlaneDistance2(current_pose, WP(current_path, 0))
       < PlaneDistance2(current_pose, WP(current_path, 1))
  /\ PlaneDistance2(current_pose, WP(current_path, 2))
       >= PlaneDistance2(current_pose, WP(current_path, 1))
  /\ start_index >= 2

\* C13: when the index is strictly interior and the speed stored at it is
\* exactly 0, the offset search stops in its first iteration: the offset stays
\* 0, the forward scan starts at the index for every pose, and the result is
\* that of the forward scan from the index.
C13_ZeroSpeedKeepsStart ==
  (PastOffsetSearch /\ WP(current_path, current_index).vel = 0)
    => /\ start_index_offset = 0
       /\ i = current_index
       /\ start_index = current_index
       /\ pc = "done" =>
            ret = ForwardScan(current_path, current_pose, current_index,
                              current_index)

\* zero speed at the index, non-zero speeds around it, and the next waypoint
\* strictly nearer to the pose: with a non-zero speed the search would advance
C13_Witness ==
  /\ PastOffsetSearch
  /\ pc = "done"
  /\ WP(current_path, current_index).vel = 0
  /\ WP(current_path, current_index - 1).vel > 0
  /\ WP(current_path, current_index + 1).vel > 0
  /\ PlaneDistance2(current_pose, WP(current_path, current_index + 1))
       < PlaneDistance2(current_pose, WP(current_path, current_index))
  /\ start_index = current_index

\* getWaypointYaw at an interior index, past the segment headings
InteriorYaw ==
  /\ mode = "yaw"
  /\ pc \in {"combine", "done"}
  /\ current_index > 0 /\ current_index < path_size - 1

\* the heading of the segment from waypoint a to waypoint b, rotated by pi
\* when flip holds
SegmentHeading(a, b, flip) ==
  IF flip THEN normalizeAngle(SegmentYaw(current_path, a, b) + M_PI)
  ELSE SegmentYaw(current_path, a, b)

\* C11 as stated: at an interior index i the incoming segment is rotated by
\* pi exactly when the speed at waypoint i-1 is negative, and the outgoing
\* segment exactly when the speed at waypoint i is negative.
C11_FlipBySource ==
  InteriorYaw =>
    /\ behind_yaw =
         SegmentHeading(current_index - 1, current_index,
                        WP(current_path, current_index - 1).vel < 0)
    /\ front_yaw =
         SegmentHeading(current_index, current_index + 1,
                        WP(current_path, current_index).vel < 0)

\* C11 as amended: at an interior index i the incoming segment is rotated by
\* pi exactly when the speed at waypoint i is negative, and the outgoing
\* segment exactly when the speed at waypoint i+1 is negative.
C11_FlipByDestination ==
  InteriorYaw =>
    /\ behind_yaw =
         SegmentHeading(current_index - 1, current_index,
                        WP(current_path, current_index).vel < 0)
    /\ front_yaw =
         SegmentHeading(current_index, current_index + 1,
                        WP(current_path, current_index + 1).vel < 0)

\* negative speed before and after the index, not at it: the incoming
\* segment is kept and the outgoing segment is rotated
C11_Witness ==
  /\ InteriorYaw
  /\ WP(current_path, current_index - 1).vel < 0
  /\ WP(current_path, current_index).vel > 0
  /\ WP(current_path, current_index + 1).vel < 0
  /\ behind_yaw = SegmentYaw(current_path, current_index - 1, current_index)
  /\ front_yaw # SegmentYaw(current_path, current_index, current_index + 1)

====
